---- MODULE Spec2Model ----
(***************************************************************************)
(* State-machine model of src/src/bifpn.py: construction of a BiFPN, the   *)
(* external optimizer's writes to the fusion weights, and the forward      *)
(* call (expander loop, the 8 fusion nodes of every block, the trimming    *)
(* of the running mapping).  A feature map is abstracted to its channel    *)
(* count, its spatial size and the place that produced it; an OrderedDict  *)
(* is a sequence of (key, val) pairs in insertion order.  Weights are      *)
(* integers in units of eps (1.0 = 10000 eps).                             *)
(***************************************************************************)
EXTENDS Integers, Sequences, FiniteSets, TLC

VARIABLES pc, err, levels_in, bifpn_height, in_channels, out_channels,
          num_bifpns, has_downsample_convs, downsample_convs, bifp_layers,
          feature_maps, input_maps, orig, ncalls, layer, blk, nd,
          level_id_offset, retval, combine_local

vars == <<pc, err, levels_in, bifpn_height, in_channels, out_channels,
          num_bifpns, has_downsample_convs, downsample_convs, bifp_layers,
          feature_maps, input_maps, orig, ncalls, layer, blk, nd,
          level_id_offset, retval, combine_local>>

(* ------------------------------ bounds -------------------------------- *)
MaxStartLevel == 4
StartLevels == 2 .. MaxStartLevel
MaxLevels == 4
MaxHeight == 6
MaxBifpns == 2
MaxCalls == 2
ChannelVals == {40, 64}
OutChannelVals == {64}
BaseSizes == {24, 32}
WeightVals == {-1, 2}

(* ------------------------- program constants -------------------------- *)
eps == 1
ones == 10000
kernel_size == 3
padding == 1
stride == 2
scale_factor == 2

(* ---------------------------- arithmetic ------------------------------ *)
RECURSIVE Pow2(_)
Pow2(n) == IF n <= 0 THEN 1 ELSE 2 * Pow2(n - 1)

RECURSIVE SumSeq(_)
SumSeq(s) == IF s = <<>> THEN 0 ELSE Head(s) + SumSeq(Tail(s))

SeqMax(s) == CHOOSE m \in {s[i] : i \in 1 .. Len(s)} :
                \A i \in 1 .. Len(s) : s[i] <= m

relu(w) == IF w > 0 THEN w ELSE 0

(* --------------------- collections.OrderedDict ------------------------ *)
Keys(m) == {m[i].key : i \in 1 .. Len(m)}

Get(m, k) == m[CHOOSE i \in 1 .. Len(m) : m[i].key = k].val

Put(m, k, v) ==
    IF k \in Keys(m)
    THEN [i \in 1 .. Len(m) |-> IF m[i].key = k THEN [key |-> k, val |-> v] ELSE m[i]]
    ELSE Append(m, [key |-> k, val |-> v])

FirstKey(m) == m[1].key

LastKey(m) == m[Len(m)].key

(* ---------------------------- the layers ------------------------------ *)
MaxPool2d(s) == ((s + 2 * padding - kernel_size) \div stride) + 1

UpsamplingNearest2d(s) == scale_factor * s

node_param(feat_level, offsets, upsample) ==
    [feat_level |-> feat_level, offsets |-> offsets, upsample |-> upsample]

_NODE_PARAMS == <<
    node_param(6, <<3, 4>>, TRUE),
    node_param(5, <<2, 5>>, TRUE),
    node_param(4, <<1, 6>>, TRUE),
    node_param(3, <<0, 7>>, TRUE),
    node_param(4, <<1, 7, 8>>, FALSE),
    node_param(5, <<2, 6, 9>>, FALSE),
    node_param(6, <<3, 5, 10>>, FALSE),
    node_param(7, <<4, 11>>, FALSE) >>

(* ------------------- construction (the __init__ methods) --------------- *)
\* A python slice s[-k:] of a list.
Slice(s, k) == IF k >= Len(s) THEN s ELSE SubSeq(s, Len(s) - k + 1, Len(s))

\* A python list [v] * k (empty when k <= 0).
Repeat(v, k) == [i \in 1 .. (IF k > 0 THEN k ELSE 0) |-> v]

\* range(bifpn_height - len(levels) - 1): the plain max-pool layers.
PlainPools(height, nlevels) == Repeat([conv |-> <<>>], height - nlevels - 1)

\* self.downsample_convs: the 1x1 conv + max-pool, then the plain max-pools.
DownsampleConvs(in_ch, out_ch, height, nlevels) ==
    <<[conv |-> <<[cin |-> in_ch[Len(in_ch)], cout |-> out_ch]>>]>>
        \o PlainPools(height, nlevels)

\* level_channels and channel_dict of BiFPN.__init__.
ChannelDict(in_ch, out_ch, height, levels) ==
    LET level_channels == Slice(in_ch, Len(levels)) \o Repeat(out_ch, height - Len(levels))
    IN  [l \in {levels[i] : i \in 1 .. Len(levels)} |->
            level_channels[CHOOSE i \in 1 .. Len(levels) : levels[i] = l]]

\* channels_in of the blocks after the first.
UniformDict(out_ch, levels) == [l \in {levels[i] : i \in 1 .. Len(levels)} |-> out_ch]

\* The offsets of a node that get a lateral conv in CombineLevels.__init__.
LateralIdx(offsets, channels, channels_in) ==
    {i \in 1 .. Len(offsets) :
        offsets[i] \in DOMAIN channels_in /\ channels_in[offsets[i]] # channels}

\* self.lateral_node after the loop: the last offset that matched, or None ({}).
LateralNode(offsets, channels, channels_in) ==
    LET idx == LateralIdx(offsets, channels, channels_in)
    IN  IF idx = {} THEN {}
        ELSE {offsets[CHOOSE i \in idx : \A j \in idx : j <= i]}

\* self.index_offset of BiFPNBlock.__init__.
IndexOffset(num_levels, channels_in) == num_levels - Cardinality(DOMAIN channels_in) + 1

CombineLevels_init(param, index_offset, channels, channels_in) ==
    LET offsets == [i \in 1 .. Len(param.offsets) |-> index_offset + param.offsets[i]]
        lat == LateralNode(offsets, channels, channels_in)
    IN  [upsample |-> param.upsample,
         offsets |-> offsets,
         lateral_node |-> lat,
         lateral_conv |-> {[cin |-> channels_in[o], cout |-> channels] : o \in lat},
         weights |-> Repeat(ones, Len(offsets))]

BiFPNBlock_init(channels, num_levels, channels_in) ==
    [num_levels |-> num_levels,
     channels |-> channels,
     index_offset |-> IndexOffset(num_levels, channels_in),
     combines |-> [i \in 1 .. Len(_NODE_PARAMS) |->
                     CombineLevels_init(_NODE_PARAMS[i],
                                        IndexOffset(num_levels, channels_in),
                                        channels, channels_in)]]

BifpLayers(in_ch, out_ch, nb, height, levels) ==
    [idx \in 1 .. nb |->
        BiFPNBlock_init(out_ch, height,
                        IF idx > 1 THEN UniformDict(out_ch, levels)
                        ELSE ChannelDict(in_ch, out_ch, height, levels))]

(* ------------------------------- state -------------------------------- *)
NoLocal == [blk |-> 0, node |-> 0, stacked |-> <<>>, summed |-> FALSE, weights |-> <<>>,
            denom |-> 0]

Init ==
    /\ pc = "new"
    /\ err = "none"
    /\ levels_in = <<>>
    /\ bifpn_height = 0
    /\ in_channels = <<>>
    /\ out_channels = 0
    /\ num_bifpns = 0
    /\ has_downsample_convs = FALSE
    /\ downsample_convs = <<>>
    /\ bifp_layers = <<>>
    /\ feature_maps = <<>>
    /\ input_maps = <<>>
    /\ orig = <<>>
    /\ ncalls = 0
    /\ layer = 0
    /\ blk = 0
    /\ nd = 0
    /\ level_id_offset = 0
    /\ retval = <<>>
    /\ combine_local = NoLocal

\* BiFPN.__init__ .
Construct ==
    /\ pc = "new"
    /\ \E l0 \in StartLevels, n \in 1 .. MaxLevels, h \in 1 .. MaxHeight,
          nb \in 1 .. MaxBifpns, oc \in OutChannelVals :
       \E ic \in [1 .. n -> ChannelVals] :
          LET levels == [i \in 1 .. n |-> l0 + i - 1] IN
          /\ levels_in' = levels
          /\ bifpn_height' = h
          /\ in_channels' = ic
          /\ out_channels' = oc
          /\ num_bifpns' = nb
          /\ has_downsample_convs' = (h # n)
          /\ downsample_convs' = IF h # n THEN DownsampleConvs(ic, oc, h, n) ELSE <<>>
          /\ bifp_layers' = BifpLayers(ic, oc, nb, h, levels)
    /\ pc' = "constructed"
    /\ UNCHANGED <<err, feature_maps, input_maps, orig, ncalls, layer, blk, nd,
                   level_id_offset, retval, combine_local>>

\* The external optimizer writes the fusion weights between forward calls.
Optimize ==
    /\ pc = "constructed"
    /\ ncalls = 0
    /\ \E w \in [1 .. 3 -> WeightVals] :
          bifp_layers' =
            [b \in 1 .. Len(bifp_layers) |->
                [bifp_layers[b] EXCEPT !.combines =
                    [i \in 1 .. Len(@) |->
                        [@[i] EXCEPT !.weights = [j \in 1 .. Len(@) |-> w[j]]]]]]
    /\ pc' = "trained"
    /\ UNCHANGED <<err, levels_in, bifpn_height, in_channels, out_channels, num_bifpns,
                   has_downsample_convs, downsample_convs, feature_maps, input_maps,
                   orig, ncalls, layer, blk, nd, level_id_offset, retval, combine_local>>

(* ----------------------- layers applied to a map ----------------------- *)
\* Where a map was produced: by the backbone, by the expander, or by fusion
\* node `node` of block `blk` during forward call `call`.
Input == [call |-> 0, blk |-> 0, node |-> 0]
Synthetic(call) == [call |-> call, blk |-> 0, node |-> 0]
NodeOutput(call, b, i) == [call |-> call, blk |-> b, node |-> i]

\* torch.nn.Conv2d(cin, cout, kernel_size=1): defined on maps of cin channels.
ConvAccepts(conv, t) == \A c \in conv : t.ch = c.cin

\* self.resample of CombineLevels.
Resample(upsample, t) ==
    [t EXCEPT !.sz = IF upsample THEN UpsamplingNearest2d(@) ELSE MaxPool2d(@)]

\* The maps that the caller's backbone hands in: keyed by the configured levels,
\* in ascending order, each level half the size of the one before.
BackboneMaps(levels, in_ch, base) ==
    [i \in 1 .. Len(levels) |->
        [key |-> levels[i],
         val |-> [ch |-> in_ch[i], sz |-> base \div Pow2(i - 1), src |-> Input]]]

(* ----------------------- CombineLevels.__call__ ----------------------- *)
\* The loop "for node in x": the keys it copies into nodes.
Gathered(c, x) ==
    {k \in Keys(x) :
        k \in c.lateral_node
        \/ (k \in {c.offsets[i] : i \in 1 .. Len(c.offsets)} /\ k # SeqMax(c.offsets))}

\* nodes[k] once line 272 has run; the max offset holds the resampled raw map.
NodeAt(c, x, k) ==
    IF k = SeqMax(c.offsets) THEN Resample(c.upsample, Get(x, k))
    ELSE IF k \in c.lateral_node
         THEN [Get(x, k) EXCEPT !.ch = (CHOOSE cv \in c.lateral_conv : TRUE).cout]
         ELSE Get(x, k)

\* torch.sum(weights + self.eps): eps is broadcast over the weight vector.
Denominator(weights) == SumSeq([i \in 1 .. Len(weights) |-> relu(weights[i]) + eps])

\* The result of one combine: the error it raises, or the summed map; with the
\* list built for torch.stack, whether the stack (and so the sum) was formed,
\* and the rectified weights and their normaliser.
CombineLevels_call(c, x) ==
    LET mx == SeqMax(c.offsets)
        gathered == Gathered(c, x)
        have == gathered \cup {mx}
        stacked == [i \in 1 .. Len(c.offsets) |->
                      [key |-> c.offsets[i],
                       ch |-> NodeAt(c, x, c.offsets[i]).ch,
                       sz |-> NodeAt(c, x, c.offsets[i]).sz,
                       resampled |-> (c.offsets[i] = mx)]]
        none == [err |-> "none", stacked |-> <<>>, summed |-> FALSE, weights |-> <<>>,
                 denom |-> 0, ch |-> 0, sz |-> 0]
        listed == [none EXCEPT !.stacked = stacked,
                               !.weights = [i \in 1 .. Len(c.weights) |-> relu(c.weights[i])],
                               !.denom = Denominator(c.weights)]
    IN  IF \E k \in gathered \cap c.lateral_node : ~ConvAccepts(c.lateral_conv, Get(x, k))
        THEN [none EXCEPT !.err = "RuntimeError"]
        ELSE IF mx \notin Keys(x) \/ \E i \in 1 .. Len(c.offsets) : c.offsets[i] \notin have
        THEN [none EXCEPT !.err = "KeyError"]
        ELSE IF \E i \in 1 .. Len(stacked) :
                    stacked[i].ch # stacked[1].ch \/ stacked[i].sz # stacked[1].sz
        THEN [listed EXCEPT !.err = "RuntimeError"]
        ELSE [listed EXCEPT !.summed = TRUE, !.ch = stacked[1].ch, !.sz = stacked[1].sz]

\* post_combine: the depthwise conv is built for `channels` input channels.
PostCombineAccepts(channels, ch) == ch = channels

\* LastLevels without the re-keying: the entries keep the keys they had in the
\* running mapping.
LastLevels_KeepKeys(m, num_levels, first) ==
    LET skip == IF Len(m) > num_levels THEN Len(m) - num_levels ELSE 0
    IN  [i \in 1 .. Len(m) - skip |-> m[skip + i]]

\* "Only return the last self.num_levels levels", re-keyed from level_id_offset.
LastLevels(m, num_levels, first) ==
    LET skip == IF Len(m) > num_levels THEN Len(m) - num_levels ELSE 0
    IN  [i \in 1 .. Len(m) - skip |-> [key |-> (i - 1) + first, val |-> m[skip + i].val]]

\* The mapping BiFPNBlock.__call__ is working on: the first block works on the
\* object the caller passed, a later block on the previous block's retval.
Running == IF blk = 1 THEN feature_maps ELSE input_maps

(* ------------------------- the forward call --------------------------- *)
\* The state in which the first block starts on mapping m (line 202).
EnterBlock(b, m) ==
    /\ pc' = "block"
    /\ blk' = b
    /\ nd' = 1
    /\ level_id_offset' = FirstKey(m)

Fail(e) ==
    /\ pc' = "failed"
    /\ err' = e

\* BiFPN.__call__ is entered: the caller builds the mapping on the first call
\* and passes the same object on a later one; reading self.downsample_convs
\* raises AttributeError when __init__ never set it.
Call ==
    /\ pc \in {"constructed", "trained", "done", "failed"}
    /\ ncalls < MaxCalls
    /\ ncalls' = ncalls + 1
    /\ IF ncalls = 0
       THEN \E base \in BaseSizes :
               /\ base % Pow2(Len(levels_in) - 1) = 0
               /\ feature_maps' = BackboneMaps(levels_in, in_channels, base)
               /\ orig' = BackboneMaps(levels_in, in_channels, base)
       ELSE UNCHANGED <<feature_maps, orig>>
    /\ IF has_downsample_convs
       THEN /\ pc' = "expand"
            /\ err' = "none"
       ELSE Fail("AttributeError")
    /\ layer' = 1
    /\ blk' = 0
    /\ nd' = 0
    /\ input_maps' = <<>>
    /\ retval' = <<>>
    /\ combine_local' = NoLocal
    /\ UNCHANGED <<levels_in, bifpn_height, in_channels, out_channels, num_bifpns,
                   has_downsample_convs, downsample_convs, bifp_layers, level_id_offset>>

\* One iteration of the loop over self.downsample_convs (lines 132-136); after
\* the last one the first block is entered (line 138).
ExpandStep ==
    /\ pc = "expand"
    /\ LET top == feature_maps[Len(feature_maps)]
           l == downsample_convs[layer]
           out == [ch |-> IF l.conv = <<>> THEN top.val.ch ELSE l.conv[1].cout,
                   sz |-> MaxPool2d(top.val.sz),
                   src |-> Synthetic(ncalls)]
           grown == Put(feature_maps, top.key + 1, out)
       IN  IF ~ConvAccepts({l.conv[i] : i \in 1 .. Len(l.conv)}, top.val)
           THEN /\ Fail("RuntimeError")
                /\ UNCHANGED <<feature_maps, layer, blk, nd, level_id_offset>>
           ELSE /\ feature_maps' = grown
                /\ IF layer < Len(downsample_convs)
                   THEN /\ layer' = layer + 1
                        /\ UNCHANGED <<pc, blk, nd, level_id_offset>>
                   ELSE /\ EnterBlock(1, grown)
                        /\ UNCHANGED layer
                /\ UNCHANGED err
    /\ UNCHANGED <<levels_in, bifpn_height, in_channels, out_channels, num_bifpns,
                   has_downsample_convs, downsample_convs, bifp_layers, input_maps,
                   orig, ncalls, retval, combine_local>>

\* One iteration of the loop of BiFPNBlock.__call__ (lines 203-205): combine,
\* post_combine_conv, and the append under the key after the last one.
NodeStep ==
    /\ pc = "block"
    /\ LET x == Running
           b == bifp_layers[blk]
           r == CombineLevels_call(b.combines[nd], x)
           out == [ch |-> b.channels, sz |-> r.sz, src |-> NodeOutput(ncalls, blk, nd)]
           grown == Put(x, LastKey(x) + 1, out)
           e == IF r.err # "none" THEN r.err
                ELSE IF ~PostCombineAccepts(b.channels, r.ch) THEN "RuntimeError"
                ELSE "none"
       IN  /\ combine_local' = [blk |-> blk, node |-> nd, stacked |-> r.stacked,
                                summed |-> r.summed, weights |-> r.weights,
                                denom |-> r.denom]
           /\ IF e # "none"
              THEN /\ Fail(e)
                   /\ UNCHANGED <<feature_maps, input_maps, nd>>
              ELSE /\ IF blk = 1
                      THEN feature_maps' = grown /\ UNCHANGED input_maps
                      ELSE input_maps' = grown /\ UNCHANGED feature_maps
                   /\ IF nd < Len(b.combines)
                      THEN nd' = nd + 1 /\ pc' = "block"
                      ELSE nd' = nd /\ pc' = "trim"
                   /\ UNCHANGED err
    /\ UNCHANGED <<levels_in, bifpn_height, in_channels, out_channels, num_bifpns,
                   has_downsample_convs, downsample_convs, bifp_layers, orig, ncalls,
                   layer, blk, level_id_offset, retval>>

\* Lines 207-215: the block returns retval; torch.nn.Sequential hands it to the
\* next block, or BiFPN.__call__ returns it.
BlockReturn ==
    /\ pc = "trim"
    /\ LET rv == LastLevels(Running, bifp_layers[blk].num_levels, level_id_offset)
       IN  /\ retval' = rv
           /\ IF blk < Len(bifp_layers)
              THEN /\ input_maps' = rv
                   /\ EnterBlock(blk + 1, rv)
              ELSE /\ pc' = "done"
                   /\ UNCHANGED <<input_maps, blk, nd, level_id_offset>>
    /\ UNCHANGED <<err, levels_in, bifpn_height, in_channels, out_channels, num_bifpns,
                   has_downsample_convs, downsample_convs, bifp_layers, feature_maps,
                   orig, ncalls, layer, combine_local>>

Next == Construct \/ Optimize \/ Call \/ ExpandStep \/ NodeStep \/ BlockReturn

Spec == Init /\ [][Next]_vars

TypeOK ==
    /\ pc \in {"new", "constructed", "trained", "expand", "block", "trim", "done", "failed"}
    /\ err \in {"none", "AttributeError", "KeyError", "RuntimeError"}
    /\ (pc = "failed") = (err # "none")

(* ------------------------------ properties ---------------------------- *)
\* A configuration the constructor is documented to accept.
Valid == pc # "new" /\ bifpn_height >= Len(levels_in)

\* The forward call in progress was given the backbone's mapping as built.
FirstCall == ncalls = 1

ContiguousFrom(m, first, count) ==
    /\ Len(m) = count
    /\ \A i \in 1 .. Len(m) : m[i].key = first + (i - 1)

\* C1: for a valid configuration and an input keyed by the configured levels,
\* every mapping a block returns (to the next block or to the caller) has
\* exactly bifpn_height entries, keyed levels[0], levels[0]+1, ... in order.
C1_OutputLevels ==
    (Valid /\ FirstCall /\ retval # <<>>)
        => ContiguousFrom(retval, levels_in[1], bifpn_height)

\* C1 witness: a two-block stack on levels that do not start at 3 has returned.
C1_Witness ==
    /\ Valid /\ FirstCall /\ pc = "done"
    /\ num_bifpns = 2 /\ levels_in[1] # 3
    /\ Len(retval) = bifpn_height

\* C2: in a valid configuration every map that enters a weighted sum has
\* out_channels channels, and so has every level of a returned mapping.
C2_UniformChannels ==
    (Valid /\ FirstCall)
        => /\ combine_local.summed
                => \A i \in 1 .. Len(combine_local.stacked) :
                      combine_local.stacked[i].ch = out_channels
           /\ \A i \in 1 .. Len(retval) : retval[i].val.ch = out_channels

\* C3: with bifpn_height = len(levels) a forward call adds no synthetic level,
\* raises nothing, and returns bifpn_height levels.
C3_ExactHeight ==
    (pc # "new" /\ bifpn_height = Len(levels_in) /\ ncalls >= 1)
        => /\ err = "none"
           /\ \A i \in 1 .. Len(feature_maps) : feature_maps[i].val.src = Input
           /\ pc = "done" => Len(retval) = bifpn_height

\* C4: no BiFPN is constructed with bifpn_height < len(levels), and no expander
\* with a positive number of layers is built for such a configuration.
C4_RejectsShrink ==
    pc # "new"
        => /\ bifpn_height >= Len(levels_in)
           /\ bifpn_height < Len(levels_in) => Len(downsample_convs) = 0

\* C5: the mapping object the caller passed keeps the keys and values it had
\* when it was first passed.
C5_InputUntouched == (Valid /\ ncalls >= 1) => feature_maps = orig

\* C6: in a constructed module no fusion node is reached whose resolved offset
\* is missing from the running mapping, and no forward call fails on one.
C6_OffsetsResolved ==
    /\ (Valid /\ FirstCall) => err # "KeyError"
    /\ (Valid /\ FirstCall /\ pc = "block")
          => \A i \in 1 .. Len(bifp_layers[blk].combines[nd].offsets) :
                bifp_layers[blk].combines[nd].offsets[i] \in Keys(Running)

\* C7: in every block of a valid configuration offset j < num_levels is the key
\* of the block's j-th input level, offset num_levels + i is the key node i was
\* appended under, and the offsets of the node about to run are existing keys.
C7_OffsetsAligned ==
    (Valid /\ FirstCall /\ pc = "block")
        => LET b == bifp_layers[blk]
               x == Running
           IN  /\ \A j \in 0 .. b.num_levels - 1 :
                     j < Len(x) /\ x[j + 1].key = b.index_offset + j
               /\ \A i \in 0 .. nd - 2 :
                     b.num_levels + i < Len(x)
                     /\ x[b.num_levels + i + 1].key = b.index_offset + b.num_levels + i
                     /\ x[b.num_levels + i + 1].val.src = NodeOutput(ncalls, blk, i + 1)
               /\ \A i \in 1 .. Len(b.combines[nd].offsets) :
                     b.combines[nd].offsets[i] \in Keys(x)

\* C8: with input sizes divisible by 2^(bifpn_height-1), every map listed for
\* the sum at a node (the resampled one and the others) has the size of the
\* node's target level: finest size / 2^(feat_level - finest level).
C8_SizesMatch ==
    (Valid /\ FirstCall /\ combine_local.stacked # <<>>
       /\ orig[1].val.sz % Pow2(bifpn_height - 1) = 0)
        => LET fl == _NODE_PARAMS[combine_local.node].feat_level
           IN  /\ fl >= levels_in[1]
               /\ \A i \in 1 .. Len(combine_local.stacked) :
                     combine_local.stacked[i].sz * Pow2(fl - levels_in[1]) = orig[1].val.sz

\* The last node of the table whose feat_level is l (0 when there is none).
LastNodeFor(l) ==
    LET hits == {i \in 1 .. Len(_NODE_PARAMS) : _NODE_PARAMS[i].feat_level = l}
    IN  IF hits = {} THEN 0 ELSE CHOOSE i \in hits : \A j \in hits : j <= i

\* C9: the entry a block returns under key L is the output, in that block, of
\* the last node whose feat_level is L (never an input level or an earlier
\* node's output), and the size halves from each returned key to the next.
C9_ReturnsLastNodes ==
    (Valid /\ FirstCall /\ pc \in {"block", "done"} /\ retval # <<>>)
        => /\ \A i \in 1 .. Len(retval) :
                 /\ retval[i].val.src.node = LastNodeFor(retval[i].key)
                 /\ retval[i].val.src.node >= 1
                 /\ retval[i].val.src.call = ncalls
           /\ \A i \in 1 .. Len(retval) - 1 :
                 retval[i].val.sz = 2 * retval[i + 1].val.sz

\* C10: the normaliser of a node's weights is sum_j relu(w_j) + eps, with eps
\* added once whatever the number of inputs; it is positive and no rectified
\* weight is negative.
C10_EpsilonOnce ==
    (Valid /\ combine_local.weights # <<>>)
        => /\ combine_local.denom = SumSeq(combine_local.weights) + eps
           /\ combine_local.denom > 0
           /\ \A i \in 1 .. Len(combine_local.weights) : combine_local.weights[i] >= 0

====
